---- MODULE Spec2Model ----
(***************************************************************************)
(* A model of ical, the command-line CalDAV client: queryEvents, which     *)
(* queries every calendar, expands each event with parseEvent and sorts    *)
(* the occurrences, and printEvent, which renders one occurrence.          *)
(*                                                                         *)
(* The model follows the revision of the program that has parseEvent and   *)
(* the event's location; the earlier revision, ical.go, has the same       *)
(* expansion inside queryEvents, no location, and returns the first error  *)
(* of QueryCalendar or NewRRule instead of logging it.                     *)
(*                                                                         *)
(* A time.Time is modelled by the whole number of seconds on the wall      *)
(* clock of its own location since 1970-01-01 00:00:00 (a zone without     *)
(* daylight-saving transitions); a time.Duration by a whole number of      *)
(* seconds.  Text is modelled by strings; a line written with Fprintf      *)
(* keeps its terminating newline.                                          *)
(*                                                                         *)
(* slices.SortFunc is modelled by the steps of the library's pattern-      *)
(* defeating quicksort, pdqsortCmpFunc: an insertion sort for at most 12   *)
(* elements, and the choice of a pivot and a partition beyond, which do    *)
(* not keep elements that compare equal in their order.                    *)
(***************************************************************************)
EXTENDS Integers, Sequences, FiniteSets, TLC

VARIABLES
    calendars,  \* the remote side: for each calendar, what QueryCalendar answers
    qStart,     \* the start given to queryEvents, the beginning of the window
    qEnd,       \* the end given to queryEvents, the end of the window
    qDescr,     \* the includeDescription given to queryEvents
    pVerbose,   \* the verbose given to printEvent
    pc,         \* position in main: "query", "sort", "print", "done", "fatal"
    ci,         \* queryEvents: index of the calendar the range loop is at
    es,         \* queryEvents: the slice es; after the return, main's es
    err,        \* the error queryEvents returns (FALSE is nil)
    logged,     \* the lines given to log.Printf / log.Println, as tags
    parsed,     \* what each parseEvent call returned, in call order
    out         \* what main wrote to os.Stdout: one sequence of lines per printEvent call

vars == <<calendars, qStart, qEnd, qDescr, pVerbose, pc, ci, es, err,
          logged, parsed, out>>

----------------------------------------------------------------------------
(* package time *)

Minute == 60
Hour == 60 * Minute
Day == 24 * Hour

\* Time.Hour, Time.Minute: the wall-clock hour and minute of t
HourOf(t) == (t % Day) \div Hour
MinuteOf(t) == (t % Hour) \div Minute

\* Time.Sub
Sub(t, u) == t - u

\* Time.Add
Add(t, d) == t + d

\* Time.Weekday: 0 is Sunday; 1970-01-01 was a Thursday
WeekdayOf(t) == ((t \div Day) + 4) % 7

\* time.Date(year, month, day, hour, min, sec, 0, loc), from the civil date
Date(year, month, day, hour, min, sec) ==
    LET y == IF month <= 2 THEN year - 1 ELSE year
        era == y \div 400
        yoe == y - era * 400
        mp == IF month > 2 THEN month - 3 ELSE month + 9
        doy == (153 * mp + 2) \div 5 + day - 1
        doe == yoe * 365 + yoe \div 4 - yoe \div 100 + doy
    IN  (era * 146097 + doe - 719468) * Day + hour * Hour + min * Minute + sec

\* Time.Date: the civil date of t, from the day number
CivilDate(t) ==
    LET z == (t \div Day) + 719468
        era == z \div 146097
        doe == z - era * 146097
        yoe == (doe - doe \div 1460 + doe \div 36524 - doe \div 146096) \div 365
        doy == doe - (365 * yoe + yoe \div 4 - yoe \div 100)
        mp == (5 * doy + 2) \div 153
        d == doy - (153 * mp + 2) \div 5 + 1
        m == IF mp < 10 THEN mp + 3 ELSE mp - 9
        y == yoe + era * 400 + (IF m <= 2 THEN 1 ELSE 0)
    IN  [year |-> y, month |-> m, day |-> d]

\* one decimal digit
Digit(n) == SubSeq("0123456789", n + 1, n + 1)

\* strconv.Itoa of a natural number
RECURSIVE Itoa(_)
Itoa(n) == IF n < 10 THEN Digit(n) ELSE Itoa(n \div 10) \o Digit(n % 10)

\* a number in two digits, as the layouts "01", "02", "15" and "04" print it
TwoDigits(n) == Digit((n \div 10) % 10) \o Digit(n % 10)

\* the layout "2006": the year in four digits
FourDigits(n) == TwoDigits(n \div 100) \o TwoDigits(n % 100)

\* the layout "Mon": the weekday's three-letter name
WeekdayName(t) == SubSeq("SunMonTueWedThuFriSat", 3 * WeekdayOf(t) + 1, 3 * WeekdayOf(t) + 3)

\* Time.Format("Mon 2006-01-02")
FormatDate(t) ==
    LET c == CivilDate(t)
    IN  WeekdayName(t) \o " " \o FourDigits(c.year) \o "-" \o TwoDigits(c.month)
            \o "-" \o TwoDigits(c.day)

\* Time.Format("Mon 2006-01-02 15:04")
FormatDateTime(t) ==
    FormatDate(t) \o " " \o TwoDigits(HourOf(t)) \o ":" \o TwoDigits(MinuteOf(t))

\* Duration.String for a whole number of seconds: "0s", "1m30s", "24h0m0s", "-30m0s"
DurationString(d) ==
    LET u == IF d < 0 THEN 0 - d ELSE d
        h == u \div Hour
        m == (u \div Minute) % 60
        s == u % Minute
    IN  IF d = 0 THEN "0s"
        ELSE (IF d < 0 THEN "-" ELSE "")
             \o (IF h > 0 THEN Itoa(h) \o "h" ELSE "")
             \o (IF u \div Minute > 0 THEN Itoa(m) \o "m" ELSE "")
             \o Itoa(s) \o "s"

\* fmt.Sprintf("%2v", h): the number right-justified in a field of width 2
SprintfWidth2(h) == IF h < 10 THEN " " \o Itoa(h) ELSE Itoa(h)

\* fmt.Sprintf("%02v", m): the number padded with zeros to width 2
SprintfZero2(m) == IF m < 10 THEN "0" \o Itoa(m) ELSE Itoa(m)

----------------------------------------------------------------------------
(* github.com/teambition/rrule-go, as parseEvent uses it *)

\* e.Props.RecurrenceRule() returning nil: the event has no recurrence rule
NilROption == [Freq |-> "NONE", Interval |-> 0, Count |-> 0, Dtstart |-> 0]

\* rrule.NewRRule: the rule is refused when its bounds are not valid (a
\* negative INTERVAL); an absent INTERVAL (0) means 1
NewRRule(ropt) ==
    [err |-> ropt.Interval < 0,
     rr |-> [ropt EXCEPT !.Interval = IF ropt.Interval = 0 THEN 1 ELSE ropt.Interval]]

\* the time between two instances of the rule: FREQ=DAILY or FREQ=WEEKLY,
\* every Interval-th
Period(rr) == rr.Interval * (IF rr.Freq = "WEEKLY" THEN 7 * Day ELSE Day)

\* RRule.Between(after, before, inc): the instances Dtstart + k * Period, the
\* first Count of them when Count > 0, that lie between after and before, in
\* ascending order; inc makes both ends inclusive
Between(rr, after, before, inc) ==
    LET last == IF before < rr.Dtstart THEN 0 - 1
                ELSE (before - rr.Dtstart) \div Period(rr)
        kmax == IF rr.Count > 0 /\ rr.Count - 1 < last THEN rr.Count - 1 ELSE last
        At(k) == rr.Dtstart + k * Period(rr)
        Inside(t) == IF inc THEN after <= t /\ t <= before
                     ELSE after < t /\ t < before
        ks == {k \in 0..kmax : Inside(At(k))}
        kmin == IF ks = {} THEN 0 ELSE CHOOSE k \in ks : \A j \in ks : k <= j
    IN  [i \in 1..Cardinality(ks) |-> At(kmin + i - 1)]

----------------------------------------------------------------------------
(* parseEvent *)

\* the struct event
event(start, end, summary, description, location) ==
    [start |-> start, end |-> end, summary |-> summary,
     description |-> description, location |-> location]

\* the description read whether asked for or not
descriptionAlways(e, includeDescription) == e.description

\* the description parseEvent keeps: read only when includeDescription
descriptionOf(e, includeDescription) ==
    IF includeDescription THEN e.description ELSE ""

\* an instance that ends where it starts: the duration is not added
instanceAtNoDuration(t, duration, summary, description, location) ==
    event(t, t, summary, description, location)

\* the occurrence parseEvent makes for the instance t of a recurring event
instanceAt(t, duration, summary, description, location) ==
    event(t, Add(t, duration), summary, description, location)

\* parseEvent keeping an event without a rule only when it meets the window
parseEventInWindow(e, start, end, includeDescription) ==
    LET dtstart == e.dtstart
        dtend == e.dtend
        duration == Sub(dtend, dtstart)
        ropt == e.rrule
        summary == e.summary
        description == descriptionOf(e, includeDescription)
        location == e.location
    IN  IF ropt # NilROption
        THEN LET new == NewRRule([ropt EXCEPT !.Dtstart = dtstart])
                 ts == Between(new.rr, start, end, TRUE)
             IN  IF new.err
                 THEN [es |-> <<>>, err |-> TRUE]
                 ELSE [es |-> [i \in 1..Len(ts) |->
                                  instanceAt(ts[i], duration, summary, description, location)],
                       err |-> FALSE]
        ELSE IF dtend < start \/ dtstart > end
             THEN [es |-> <<>>, err |-> FALSE]
             ELSE [es |-> <<event(dtstart, dtend, summary, description, location)>>,
                   err |-> FALSE]

\* parseEvent: [es |-> the []event returned, err |-> an error was returned]
parseEvent(e, start, end, includeDescription) ==
    LET dtstart == e.dtstart
        dtend == e.dtend
        duration == Sub(dtend, dtstart)
        ropt == e.rrule
        summary == e.summary
        description == descriptionOf(e, includeDescription)
        location == e.location
    IN  IF ropt # NilROption
        THEN LET new == NewRRule([ropt EXCEPT !.Dtstart = dtstart])
                 ts == Between(new.rr, start, end, TRUE)
             IN  IF new.err
                 THEN [es |-> <<>>, err |-> TRUE]
                 ELSE [es |-> [i \in 1..Len(ts) |->
                                  instanceAt(ts[i], duration, summary, description, location)],
                       err |-> FALSE]
        ELSE [es |-> <<event(dtstart, dtend, summary, description, location)>>,
              err |-> FALSE]

----------------------------------------------------------------------------
(* printEvent *)

\* the test without the minute
isAllDayAnyMinute(e) ==
    HourOf(e.start) = 0 /\ Sub(e.end, e.start) = 24 * Hour

\* the test that chooses the form without time of day and duration
isAllDay(e) ==
    HourOf(e.start) = 0 /\ MinuteOf(e.start) = 0 /\ Sub(e.end, e.start) = 24 * Hour

\* the label with a duration of zero taken for hours and minutes
durationLabelFromZero(duration) ==
    IF duration >= 0 /\ duration < 24 * Hour
    THEN LET h == duration \div Hour
             m == (duration - h * Hour) \div Minute
         IN  IF m = 0
             THEN SprintfWidth2(h) \o "h   "
             ELSE SprintfWidth2(h) \o "h" \o SprintfZero2(m) \o "m"
    ELSE DurationString(duration)

\* the label with the hours printed without a field width
durationLabelNoWidth(duration) ==
    IF duration > 0 /\ duration < 24 * Hour
    THEN LET h == duration \div Hour
             m == (duration - h * Hour) \div Minute
         IN  IF m = 0
             THEN Itoa(h) \o "h   "
             ELSE Itoa(h) \o "h" \o SprintfZero2(m) \o "m"
    ELSE DurationString(duration)

\* the string d of printEvent
durationLabel(duration) ==
    IF duration > 0 /\ duration < 24 * Hour
    THEN LET h == duration \div Hour
             m == (duration - h * Hour) \div Minute
         IN  IF m = 0
             THEN SprintfWidth2(h) \o "h   "
             ELSE SprintfWidth2(h) \o "h" \o SprintfZero2(m) \o "m"
    ELSE DurationString(duration)

\* the line printEvent writes after the event's line
descriptionLines(e, verbose) ==
    IF verbose /\ e.description # "" THEN <<e.description \o "\n">> ELSE <<>>

\* printEvent: the strings written to w, one for each Fprintf
printEvent(e, verbose) ==
    LET duration == Sub(e.end, e.start)
        location == IF e.location # "" THEN ", " \o e.location ELSE ""
    IN  (IF isAllDay(e)
         THEN <<FormatDate(e.start) \o "              " \o e.summary \o location \o "\n">>
         ELSE <<FormatDateTime(e.start) \o " " \o durationLabel(duration) \o " "
                  \o e.summary \o location \o "\n">>)
        \o descriptionLines(e, verbose)

----------------------------------------------------------------------------
(* queryEvents *)

\* the comparison with its arguments exchanged
cmpExchanged(a, b) == IF b.start < a.start THEN 0 - 1 ELSE IF b.start > a.start THEN 1 ELSE 0

\* the comparison given to slices.SortFunc
cmp(a, b) == IF a.start < b.start THEN 0 - 1 ELSE IF a.start > b.start THEN 1 ELSE 0

(* slices.SortFunc: the pattern-defeating quicksort of the Go library, on   *)
(* the slice data with Go's indices from 0                                 *)

\* data[i]
Elem(data, i) == data[i + 1]

\* data[i], data[j] = data[j], data[i]
Swap(data, i, j) == [data EXCEPT ![i + 1] = data[j + 1], ![j + 1] = data[i + 1]]

\* cmp(x, y) < 0
less(x, y) == cmp(x, y) < 0

\* insertionSortCmpFunc, the inner loop: data[j] moves left past what is greater
RECURSIVE insertionShift(_, _, _)
insertionShift(data, a, j) ==
    IF j > a /\ less(Elem(data, j), Elem(data, j - 1))
    THEN insertionShift(Swap(data, j, j - 1), a, j - 1)
    ELSE data

\* insertionSortCmpFunc, the outer loop from i
RECURSIVE insertionFrom(_, _, _, _)
insertionFrom(data, a, b, i) ==
    IF i < b THEN insertionFrom(insertionShift(data, a, i), a, b, i + 1) ELSE data

\* insertionSortCmpFunc sorts data[a:b] by insertion
insertionSortCmpFunc(data, a, b) == insertionFrom(data, a, b, a + 1)

\* siftDownCmpFunc on the heap data[first+lo : first+hi], from root lo
RECURSIVE siftDownCmpFunc(_, _, _, _)
siftDownCmpFunc(data, lo, hi, first) ==
    LET left == 2 * lo + 1
        child == IF left + 1 < hi
                    /\ less(Elem(data, first + left), Elem(data, first + left + 1))
                 THEN left + 1 ELSE left
    IN  IF left >= hi THEN data
        ELSE IF ~less(Elem(data, first + lo), Elem(data, first + child)) THEN data
        ELSE siftDownCmpFunc(Swap(data, first + lo, first + child), child, hi, first)

\* heapSortCmpFunc, the first loop: the heap is built from i down to 0
RECURSIVE heapBuild(_, _, _, _)
heapBuild(data, i, hi, first) ==
    IF i < 0 THEN data
    ELSE heapBuild(siftDownCmpFunc(data, i, hi, first), i - 1, hi, first)

\* heapSortCmpFunc, the second loop: the greatest goes to the end
RECURSIVE heapPop(_, _, _)
heapPop(data, i, first) ==
    IF i < 0 THEN data
    ELSE heapPop(siftDownCmpFunc(Swap(data, first, first + i), 0, i, first), i - 1, first)

\* heapSortCmpFunc sorts data[a:b]
heapSortCmpFunc(data, a, b) ==
    heapPop(heapBuild(data, (b - a - 1) \div 2, b - a, a), b - a - 1, a)

\* in partitionCmpFunc: for i <= j && less(data[i], data[a]) { i++ }
RECURSIVE scanUp(_, _, _, _)
scanUp(data, a, i, j) ==
    IF i <= j /\ less(Elem(data, i), Elem(data, a)) THEN scanUp(data, a, i + 1, j) ELSE i

\* in partitionCmpFunc: for i <= j && !less(data[j], data[a]) { j-- }
RECURSIVE scanDown(_, _, _, _)
scanDown(data, a, i, j) ==
    IF i <= j /\ ~less(Elem(data, j), Elem(data, a)) THEN scanDown(data, a, i, j - 1) ELSE j

\* partitionCmpFunc, its last loop
RECURSIVE partitionLoop(_, _, _, _)
partitionLoop(data, a, i, j) ==
    LET i2 == scanUp(data, a, i, j)
        j2 == scanDown(data, a, i2, j)
    IN  IF i2 > j2 THEN [data |-> data, j |-> j2]
        ELSE partitionLoop(Swap(data, i2, j2), a, i2 + 1, j2 - 1)

\* partitionCmpFunc: what is less than the pivot goes before it, the rest after
partitionCmpFunc(data, a, b, pivot) ==
    LET d0 == Swap(data, a, pivot)
        i == scanUp(d0, a, a + 1, b - 1)
        j == scanDown(d0, a, i, b - 1)
        r == partitionLoop(Swap(d0, i, j), a, i + 1, j - 1)
    IN  IF i > j
        THEN [data |-> Swap(d0, j, a), mid |-> j, alreadyPartitioned |-> TRUE]
        ELSE [data |-> Swap(r.data, r.j, a), mid |-> r.j, alreadyPartitioned |-> FALSE]

\* in partitionEqualCmpFunc: for i <= j && !less(data[a], data[i]) { i++ }
RECURSIVE scanUpEqual(_, _, _, _)
scanUpEqual(data, a, i, j) ==
    IF i <= j /\ ~less(Elem(data, a), Elem(data, i)) THEN scanUpEqual(data, a, i + 1, j) ELSE i

\* in partitionEqualCmpFunc: for i <= j && less(data[a], data[j]) { j-- }
RECURSIVE scanDownEqual(_, _, _, _)
scanDownEqual(data, a, i, j) ==
    IF i <= j /\ less(Elem(data, a), Elem(data, j)) THEN scanDownEqual(data, a, i, j - 1) ELSE j

\* partitionEqualCmpFunc, its loop
RECURSIVE partitionEqualLoop(_, _, _, _)
partitionEqualLoop(data, a, i, j) ==
    LET i2 == scanUpEqual(data, a, i, j)
        j2 == scanDownEqual(data, a, i2, j)
    IN  IF i2 > j2 THEN [data |-> data, mid |-> i2]
        ELSE partitionEqualLoop(Swap(data, i2, j2), a, i2 + 1, j2 - 1)

\* partitionEqualCmpFunc: what equals the pivot goes first, what is greater after
partitionEqualCmpFunc(data, a, b, pivot) ==
    partitionEqualLoop(Swap(data, a, pivot), a, a + 1, b - 1)

\* partialInsertionSortCmpFunc: for i < b && !less(data[i], data[i-1]) { i++ }
RECURSIVE skipOrdered(_, _, _)
skipOrdered(data, i, b) ==
    IF i < b /\ ~less(Elem(data, i), Elem(data, i - 1)) THEN skipOrdered(data, i + 1, b) ELSE i

\* partialInsertionSortCmpFunc: the smaller one is shifted to the left
RECURSIVE shiftLeft(_, _)
shiftLeft(data, j) ==
    IF j >= 1 /\ less(Elem(data, j), Elem(data, j - 1))
    THEN shiftLeft(Swap(data, j, j - 1), j - 1)
    ELSE data

\* partialInsertionSortCmpFunc: the greater one is shifted to the right
RECURSIVE shiftRight(_, _, _)
shiftRight(data, j, b) ==
    IF j < b /\ less(Elem(data, j), Elem(data, j - 1))
    THEN shiftRight(Swap(data, j, j - 1), j + 1, b)
    ELSE data

\* partialInsertionSortCmpFunc, from its step-th step: at most 5 steps, and
\* nothing is shifted in a slice shorter than 50
RECURSIVE partialInsertionSteps(_, _, _, _, _)
partialInsertionSteps(data, a, b, i, step) ==
    LET i2 == skipOrdered(data, i, b)
        d1 == Swap(data, i2, i2 - 1)
        d2 == IF i2 - a >= 2 THEN shiftLeft(d1, i2 - 1) ELSE d1
        d3 == IF b - i2 >= 2 THEN shiftRight(d2, i2 + 1, b) ELSE d2
    IN  IF step >= 5 THEN [data |-> data, sorted |-> FALSE]
        ELSE IF i2 = b THEN [data |-> data, sorted |-> TRUE]
        ELSE IF b - a < 50 THEN [data |-> data, sorted |-> FALSE]
        ELSE partialInsertionSteps(d3, a, b, i2, step + 1)

\* partialInsertionSortCmpFunc: sorted says whether data[a:b] is sorted at the end
partialInsertionSortCmpFunc(data, a, b) == partialInsertionSteps(data, a, b, a + 1, 0)

\* bits.Len
RECURSIVE BitsLen(_)
BitsLen(n) == IF n = 0 THEN 0 ELSE 1 + BitsLen(n \div 2)

\* a uint64 as the set of the places of its bits that are 1
RECURSIVE BitsOf(_, _)
BitsOf(n, i) ==
    IF n = 0 THEN {}
    ELSE (IF n % 2 = 1 THEN {i} ELSE {}) \cup BitsOf(n \div 2, i + 1)

Xor(x, y) == (x \ y) \cup (y \ x)
ShiftLeft(x, k) == {i + k : i \in {j \in x : j + k < 64}}
ShiftRight(x, k) == {i - k : i \in {j \in x : j >= k}}

\* xorshift.Next
xorshiftNext(r) ==
    LET r1 == Xor(r, ShiftLeft(r, 13))
        r2 == Xor(r1, ShiftRight(r1, 7))
    IN  Xor(r2, ShiftLeft(r2, 17))

\* the number made of the bits of x below the place n
RECURSIVE LowBits(_, _)
LowBits(x, n) ==
    IF n = 0 THEN 0
    ELSE 2 * LowBits(ShiftRight(x, 1), n - 1) + (IF 0 \in x THEN 1 ELSE 0)

\* breakPatternsCmpFunc, from its i-th exchange of three
RECURSIVE breakPatternsFrom(_, _, _, _, _)
breakPatternsFrom(data, a, b, random, i) ==
    LET length == b - a
        idx == a + (length \div 4) * 2 - 1
        next == xorshiftNext(random)
        masked == LowBits(next, BitsLen(length))
        other == IF masked >= length THEN masked - length ELSE masked
    IN  IF i >= 3 THEN data
        ELSE breakPatternsFrom(Swap(data, idx - 1 + i, a + other), a, b, next, i + 1)

\* breakPatternsCmpFunc scatters three elements of data[a:b]
breakPatternsCmpFunc(data, a, b) ==
    IF b - a >= 8 THEN breakPatternsFrom(data, a, b, BitsOf(b - a, 0), 0) ELSE data

\* order2CmpFunc: <<x, y, swaps>> with data[x] <= data[y]
order2CmpFunc(data, a, b, swaps) ==
    IF less(Elem(data, b), Elem(data, a)) THEN <<b, a, swaps + 1>> ELSE <<a, b, swaps>>

\* medianCmpFunc: <<x, swaps>> with data[x] the median of data[a], data[b], data[c]
medianCmpFunc(data, a, b, c, swaps) ==
    LET p == order2CmpFunc(data, a, b, swaps)
        q == order2CmpFunc(data, p[2], c, p[3])
        r == order2CmpFunc(data, p[1], q[1], q[3])
    IN  <<r[2], r[3]>>

\* medianAdjacentCmpFunc
medianAdjacentCmpFunc(data, a, swaps) == medianCmpFunc(data, a - 1, a, a + 1, swaps)

\* choosePivotCmpFunc: the median of three from 8 elements on, Tukey's
\* ninther from 50 on, and what the number of swaps hints at
choosePivotCmpFunc(data, a, b) ==
    LET l == b - a
        i == a + (l \div 4) * 1
        j == a + (l \div 4) * 2
        k == a + (l \div 4) * 3
        mi == IF l >= 50 THEN medianAdjacentCmpFunc(data, i, 0) ELSE <<i, 0>>
        mj == IF l >= 50 THEN medianAdjacentCmpFunc(data, j, mi[2]) ELSE <<j, 0>>
        mk == IF l >= 50 THEN medianAdjacentCmpFunc(data, k, mj[2]) ELSE <<k, 0>>
        m == IF l >= 8 THEN medianCmpFunc(data, mi[1], mj[1], mk[1], mk[2]) ELSE <<j, 0>>
    IN  [pivot |-> m[1],
         hint |-> IF m[2] = 0 THEN "increasing"
                  ELSE IF m[2] = 4 * 3 THEN "decreasing" ELSE "unknown"]

\* reverseRangeCmpFunc
reverseRangeCmpFunc(data, a, b) ==
    [n \in DOMAIN data |-> IF a + 1 <= n /\ n <= b THEN data[a + 1 + b - n] ELSE data[n]]

\* pdqsortCmpFunc sorts data[a:b]; wasBalanced and wasPartitioned are its
\* variables, TRUE at the call.  One turn of its loop is told in the order
\* of the code by the operators that follow, each taking up where the one
\* before it stops.
RECURSIVE pdqsortCmpFunc(_, _, _, _, _, _)

\* after partitionCmpFunc: the shorter side is sorted by a call, and the
\* loop goes on with the longer one
pdqsortPartitioned(p, a, b, limit) ==
    IF p.mid - a < b - p.mid
    THEN pdqsortCmpFunc(pdqsortCmpFunc(p.data, a, p.mid, limit, TRUE, TRUE),
                        p.mid + 1, b, limit,
                        p.mid - a >= (b - a) \div 8, p.alreadyPartitioned)
    ELSE pdqsortCmpFunc(pdqsortCmpFunc(p.data, p.mid + 1, b, limit, TRUE, TRUE),
                        a, p.mid, limit,
                        b - p.mid >= (b - a) \div 8, p.alreadyPartitioned)

\* after partitionEqualCmpFunc: a = mid; continue
pdqsortEqualPartitioned(equal, b, limit, wasBalanced, wasPartitioned) ==
    pdqsortCmpFunc(equal.data, equal.mid, b, limit, wasBalanced, wasPartitioned)

\* the partition: around what equals the pivot when the element before
\* data[a:b] is not less than the pivot, and around the pivot otherwise
pdqsortPartition(data, a, b, limit, wasBalanced, wasPartitioned, pivot) ==
    IF a > 0 /\ ~less(Elem(data, a - 1), Elem(data, pivot))
    THEN pdqsortEqualPartitioned(partitionEqualCmpFunc(data, a, b, pivot),
                                 b, limit, wasBalanced, wasPartitioned)
    ELSE pdqsortPartitioned(partitionCmpFunc(data, a, b, pivot), a, b, limit)

\* after partialInsertionSortCmpFunc: return if it has sorted data[a:b]
pdqsortPartiallySorted(partial, a, b, limit, wasBalanced, wasPartitioned, pivot) ==
    IF partial.sorted THEN partial.data
    ELSE pdqsortPartition(partial.data, a, b, limit, wasBalanced, wasPartitioned, pivot)

\* with the pivot and the hint: a slice that is likely sorted is tried with
\* partialInsertionSortCmpFunc
pdqsortHinted(data, a, b, limit, wasBalanced, wasPartitioned, pivot, hint) ==
    IF wasBalanced /\ wasPartitioned /\ hint = "increasing"
    THEN pdqsortPartiallySorted(partialInsertionSortCmpFunc(data, a, b),
                                a, b, limit, wasBalanced, wasPartitioned, pivot)
    ELSE pdqsortPartition(data, a, b, limit, wasBalanced, wasPartitioned, pivot)

\* after choosePivotCmpFunc: a slice that decreases is reversed
pdqsortPivotChosen(data, a, b, limit, wasBalanced, wasPartitioned, chosen) ==
    IF chosen.hint = "decreasing"
    THEN pdqsortHinted(reverseRangeCmpFunc(data, a, b), a, b, limit,
                       wasBalanced, wasPartitioned,
                       (b - 1) - (chosen.pivot - a), "increasing")
    ELSE pdqsortHinted(data, a, b, limit, wasBalanced, wasPartitioned,
                       chosen.pivot, chosen.hint)

\* after breakPatternsCmpFunc, if it was called
pdqsortPatternsBroken(data, a, b, limit, wasBalanced, wasPartitioned) ==
    pdqsortPivotChosen(data, a, b, limit, wasBalanced, wasPartitioned,
                       choosePivotCmpFunc(data, a, b))

\* the beginning of the loop: insertion sort up to 12 elements, heap sort
\* when the limit is used up, breakPatternsCmpFunc after an unbalanced
\* partition
pdqsortCmpFunc(data, a, b, limit, wasBalanced, wasPartitioned) ==
    IF b - a <= 12 THEN insertionSortCmpFunc(data, a, b)
    ELSE IF limit = 0 THEN heapSortCmpFunc(data, a, b)
    ELSE IF ~wasBalanced
    THEN pdqsortPatternsBroken(breakPatternsCmpFunc(data, a, b), a, b, limit - 1,
                               wasBalanced, wasPartitioned)
    ELSE pdqsortPatternsBroken(data, a, b, limit, wasBalanced, wasPartitioned)

\* slices.SortFunc(s, cmp)
SortFunc(s) == pdqsortCmpFunc(s, 0, Len(s), BitsLen(Len(s)), TRUE, TRUE)

\* the loops left at the first parseEvent error
RECURSIVE rangeEventsBreak(_, _, _, _, _)
rangeEventsBreak(objs, k, start, end, includeDescription) ==
    IF k > Len(objs) THEN [es |-> <<>>, parsed |-> <<>>, logged |-> <<>>]
    ELSE LET r == parseEvent(objs[k], start, end, includeDescription)
             rest == rangeEventsBreak(objs, k + 1, start, end, includeDescription)
         IN  IF r.err
             THEN [es |-> <<>>, parsed |-> <<r>>, logged |-> <<"parseEvent">>]
             ELSE [es |-> r.es \o rest.es, parsed |-> <<r>> \o rest.parsed,
                   logged |-> rest.logged]

\* the loops over objs and o.Data.Events() for one calendar, from the k-th
\* event: a parseEvent error is logged and the loop continues
RECURSIVE rangeEvents(_, _, _, _, _)
rangeEvents(objs, k, start, end, includeDescription) ==
    IF k > Len(objs) THEN [es |-> <<>>, parsed |-> <<>>, logged |-> <<>>]
    ELSE LET r == parseEvent(objs[k], start, end, includeDescription)
             rest == rangeEvents(objs, k + 1, start, end, includeDescription)
         IN  IF r.err
             THEN [es |-> rest.es, parsed |-> <<r>> \o rest.parsed,
                   logged |-> <<"parseEvent">> \o rest.logged]
             ELSE [es |-> r.es \o rest.es, parsed |-> <<r>> \o rest.parsed,
                   logged |-> rest.logged]

\* a QueryCalendar error that ends queryEvents: return nil, err
QueryCalendarFailsReturns ==
    /\ pc = "query" /\ ci <= Len(calendars)
    /\ calendars[ci].fails
    /\ es' = <<>>
    /\ err' = TRUE
    /\ pc' = "fatal"
    /\ UNCHANGED <<calendars, qStart, qEnd, qDescr, pVerbose, ci, logged, parsed, out>>

\* client.QueryCalendar returns an error: it is logged and the loop continues
QueryCalendarFails ==
    /\ pc = "query" /\ ci <= Len(calendars)
    /\ calendars[ci].fails
    /\ logged' = Append(logged, "QueryCalendar")
    /\ ci' = ci + 1
    /\ UNCHANGED <<calendars, qStart, qEnd, qDescr, pVerbose, pc, es, err, parsed, out>>

\* client.QueryCalendar returns objs: every event of it is parsed
QueryCalendarEvents ==
    /\ pc = "query" /\ ci <= Len(calendars)
    /\ ~calendars[ci].fails
    /\ LET r == rangeEvents(calendars[ci].events, 1, qStart, qEnd, qDescr)
       IN  /\ es' = es \o r.es
           /\ parsed' = parsed \o r.parsed
           /\ logged' = logged \o r.logged
    /\ ci' = ci + 1
    /\ UNCHANGED <<calendars, qStart, qEnd, qDescr, pVerbose, pc, err, out>>

\* after the last calendar: the sort and the return to main
SortAndReturn ==
    /\ pc = "query" /\ ci > Len(calendars)
    /\ es' = SortFunc(es)
    /\ err' = FALSE
    /\ pc' = "print"
    /\ UNCHANGED <<calendars, qStart, qEnd, qDescr, pVerbose, ci, logged, parsed, out>>

\* main: every event of es is printed
PrintEvents ==
    /\ pc = "print"
    /\ out' = [i \in 1..Len(es) |-> printEvent(es[i], pVerbose)]
    /\ pc' = "done"
    /\ UNCHANGED <<calendars, qStart, qEnd, qDescr, pVerbose, ci, es, err, logged, parsed>>

Next == QueryCalendarFails \/ QueryCalendarEvents \/ SortAndReturn \/ PrintEvents

----------------------------------------------------------------------------
(* the inputs *)

MaxCalendars == 3
MaxEvents == 3

\* a VEVENT as parseEvent reads it
SourceEvent(dtstart, dtend, rrule, summary, description, location) ==
    [dtstart |-> dtstart, dtend |-> dtend, rrule |-> rrule, summary |-> summary,
     description |-> description, location |-> location]

ROption(freq, interval, count) ==
    [Freq |-> freq, Interval |-> interval, Count |-> count, Dtstart |-> 0]

\* every sequence over S of length at most n
SeqUpTo(S, n) == UNION {[1..k -> S] : k \in 0..n}

\* what a calendar answers: an error, or its events
Answers(E, n) ==
    {[fails |-> TRUE, events |-> <<>>]}
    \cup {[fails |-> FALSE, events |-> v] : v \in SeqUpTo(E, n)}

\* every list of n calendars over E that holds at most budget events in all
RECURSIVE CalendarLists(_, _, _)
CalendarLists(E, n, budget) ==
    IF n = 0 THEN {<<>>}
    ELSE UNION {{<<a>> \o rest : rest \in CalendarLists(E, n - 1, budget - Len(a.events))} :
                a \in Answers(E, budget)}

\* three events of a week: one on Tuesday at 9, a daily one from Monday at 9
\* whose second instance is on Tuesday at 9 too, and one whose rule is refused
WeekEvents ==
    {SourceEvent(Date(2024, 3, 5, 9, 0, 0), Date(2024, 3, 5, 10, 0, 0), NilROption,
                 "Review", "Quarterly", "Room 1"),
     SourceEvent(Date(2024, 3, 4, 9, 0, 0), Date(2024, 3, 4, 9, 30, 0),
                 ROption("DAILY", 0, 2), "Standup", "Daily sync", ""),
     SourceEvent(Date(2024, 3, 4, 8, 0, 0), Date(2024, 3, 4, 9, 0, 0),
                 ROption("DAILY", 0 - 1, 0), "Broken", "", "")}

InitCommon ==
    /\ pc = "query" /\ ci = 1 /\ es = <<>> /\ err = FALSE
    /\ logged = <<>> /\ parsed = <<>> /\ out = <<>>

\* main: at most MaxCalendars calendars holding at most MaxEvents events in
\* all, the window of a week, and includeDescription = verbose
Init ==
    /\ calendars \in UNION {CalendarLists(WeekEvents, n, MaxEvents) : n \in 0..MaxCalendars}
    /\ qStart = Date(2024, 3, 4, 0, 0, 0)
    /\ qEnd = Date(2024, 3, 11, 0, 0, 0)
    /\ pVerbose \in BOOLEAN
    /\ qDescr = pVerbose
    /\ InitCommon

Spec == Init /\ [][Next]_vars

\* two daily events from Monday at 9, one without end and one of six
\* instances: in the window of a week they have seven and six occurrences,
\* which start together on six days
DailyEvents ==
    {SourceEvent(Date(2024, 3, 4, 9, 0, 0), Date(2024, 3, 4, 9, 30, 0),
                 ROption("DAILY", 0, 0), "Standup", "Daily sync", ""),
     SourceEvent(Date(2024, 3, 4, 9, 0, 0), Date(2024, 3, 4, 10, 0, 0),
                 ROption("DAILY", 0, 6), "Office hours", "", "Room 1")}

\* main, as in Init, with calendars that hold the daily events: the slice
\* queryEvents sorts has up to seven occurrences for each event
InitDaily ==
    /\ calendars \in UNION {CalendarLists(DailyEvents, n, MaxEvents) : n \in 0..MaxCalendars}
    /\ qStart = Date(2024, 3, 4, 0, 0, 0)
    /\ qEnd = Date(2024, 3, 11, 0, 0, 0)
    /\ pVerbose \in BOOLEAN
    /\ qDescr = pVerbose
    /\ InitCommon

SpecDaily == InitDaily /\ [][Next]_vars

\* the starts, durations and rules of one event
EventStarts ==
    {Date(2024, 3, 4, 0, 0, 0), Date(2024, 3, 4, 0, 0, 30),
     Date(2024, 3, 4, 0, 30, 0), Date(2024, 3, 4, 9, 0, 0)}

EventDurations ==
    {0 - 30 * Minute, 0, 30, 30 * Minute, Hour, 90 * Minute, 10 * Hour,
     24 * Hour - 1, 24 * Hour, 24 * Hour + 30 * Minute, 48 * Hour}

EventRules ==
    {NilROption, ROption("WEEKLY", 0, 3), ROption("DAILY", 0, 0),
     ROption("DAILY", 2, 2), ROption("WEEKLY", 0 - 1, 3)}

OneEvents ==
    {SourceEvent(s, s + d, r, "Standup", x, l) :
        s \in EventStarts, d \in EventDurations, r \in EventRules,
        x \in {"", "Daily sync"}, l \in {"", "Room 1"}}

\* the windows: three weeks from Monday, a week between two instances at 9,
\* a day that begins after the event, and days that end before it
Windows ==
    {<<Date(2024, 3, 4, 0, 0, 0), Date(2024, 3, 25, 0, 0, 0)>>,
     <<Date(2024, 3, 4, 9, 0, 0), Date(2024, 3, 11, 9, 0, 0)>>,
     <<Date(2024, 3, 5, 0, 0, 0), Date(2024, 3, 6, 0, 0, 0)>>,
     <<Date(2024, 3, 1, 0, 0, 0), Date(2024, 3, 3, 0, 0, 0)>>}

\* one calendar that fails or holds one event, any window, and queryEvents'
\* includeDescription and printEvent's verbose chosen apart
InitEvent ==
    /\ calendars \in {<<a>> : a \in Answers(OneEvents, 1)}
    /\ \E w \in Windows : qStart = w[1] /\ qEnd = w[2]
    /\ pVerbose \in BOOLEAN
    /\ qDescr \in BOOLEAN
    /\ InitCommon

SpecEvent == InitEvent /\ [][Next]_vars

----------------------------------------------------------------------------
(* what the properties speak of *)

\* queryEvents has returned to main
Returned == pc \in {"print", "done", "fatal"}

\* how many times x occurs in the sequence s
Count(s, x) == Cardinality({i \in DOMAIN s : s[i] = x})

\* the elements of a sequence
Range(s) == {s[i] : i \in DOMAIN s}

\* the events of the first n calendars whose query succeeded, in order
RECURSIVE EventsOf(_, _)
EventsOf(c, n) ==
    IF n = 0 THEN <<>>
    ELSE EventsOf(c, n - 1) \o (IF c[n].fails THEN <<>> ELSE c[n].events)

\* the events queryEvents has been given so far
EventsQueried == EventsOf(calendars, ci - 1)

\* the occurrences the parseEvent calls returned, in the order of the calls
RECURSIVE Concat(_, _)
Concat(p, n) == IF n = 0 THEN <<>> ELSE Concat(p, n - 1) \o p[n].es

Produced == Concat(parsed, Len(parsed))

\* how many times the occurrence x is among those of the events v, each
\* expanded by itself
RECURSIVE Occurs(_, _)
Occurs(v, x) ==
    IF v = <<>> THEN 0
    ELSE Count(parseEvent(v[1], qStart, qEnd, qDescr).es, x) + Occurs(Tail(v), x)

\* how many times x is among the occurrences of the calendars that answered
RECURSIVE Contributed(_, _)
Contributed(c, x) ==
    IF c = <<>> THEN 0
    ELSE (IF c[1].fails THEN 0 ELSE Occurs(c[1].events, x)) + Contributed(Tail(c), x)

\* every occurrence any event of any calendar has
AllOccurrences ==
    UNION {UNION {Range(parseEvent(calendars[i].events[j], qStart, qEnd, qDescr).es) :
                    j \in DOMAIN calendars[i].events} : i \in DOMAIN calendars}

\* an event that has occurrences in the window
Expands(e) == parseEvent(e, qStart, qEnd, qDescr).es # <<>>

\* a stable sort by start: each element goes after those that start no later
RECURSIVE StableSort(_)
StableSort(s) ==
    IF s = <<>> THEN <<>>
    ELSE LET r == StableSort(SubSeq(s, 1, Len(s) - 1))
             x == s[Len(s)]
             p == Cardinality({i \in DOMAIN r : r[i].start <= x.start})
         IN  SubSeq(r, 1, p) \o <<x>> \o SubSeq(r, p + 1, Len(r))

----------------------------------------------------------------------------
(* C1: a calendar whose query fails takes nothing away from the others:    *)
(* when queryEvents returns, it returns no error and the result holds      *)
(* every occurrence of every calendar that answered, as many times as      *)
(* those calendars contribute it; the occurrences of a failing calendar's  *)
(* neighbours, before and after it, are all there.                         *)
FailingCalendarIsolated ==
    Returned =>
        /\ err = FALSE
        /\ \A x \in AllOccurrences \cup Range(es) :
              Count(es, x) = Contributed(calendars, x)
        /\ Cardinality({i \in DOMAIN calendars : calendars[i].fails})
              = Count(logged, "QueryCalendar")

\* a failing calendar between two calendars that contribute occurrences
FailingCalendarBetween ==
    /\ pc = "done"
    /\ \E i \in DOMAIN calendars :
          /\ calendars[i].fails
          /\ \E h \in 1..(i - 1) : \E j \in DOMAIN calendars[h].events :
                Expands(calendars[h].events[j])
          /\ \E k \in (i + 1)..Len(calendars) : \E j \in DOMAIN calendars[k].events :
                Expands(calendars[k].events[j])
    /\ es # <<>>

----------------------------------------------------------------------------
(* C2: an event whose recurrence rule is refused is the only thing         *)
(* skipped: parseEvent has been called once for every event of every       *)
(* calendar that answered, each refusal is logged once, and when           *)
(* queryEvents returns, the result holds the occurrences of all the other  *)
(* events and no error.                                                    *)
FailingEventSkipped ==
    /\ Len(parsed) = Len(EventsQueried)
    /\ \A k \in DOMAIN parsed :
          parsed[k] = parseEvent(EventsQueried[k], qStart, qEnd, qDescr)
    /\ Count(logged, "parseEvent")
          = Cardinality({k \in DOMAIN EventsQueried :
                           EventsQueried[k].rrule.Interval < 0})
    /\ Returned =>
          /\ err = FALSE
          /\ Len(es) = Len(Produced)
          /\ \A k \in DOMAIN EventsQueried :
                EventsQueried[k].rrule.Interval >= 0 =>
                   \A x \in Range(parsed[k].es) : Count(es, x) = Count(Produced, x)

\* a refused event with an event before it and an event after it that have
\* occurrences, the three of them in two calendars
RefusedEventBetween ==
    /\ pc = "done"
    /\ \E k \in DOMAIN EventsQueried :
          /\ EventsQueried[k].rrule.Interval < 0
          /\ \E h \in 1..(k - 1) : Expands(EventsQueried[h])
          /\ \E h \in (k + 1)..Len(EventsQueried) : Expands(EventsQueried[h])
    /\ Cardinality({i \in DOMAIN calendars : calendars[i].events # <<>>}) >= 2
    /\ Len(es) >= 2

----------------------------------------------------------------------------
(* C5: what queryEvents returns is in ascending order of start: no         *)
(* occurrence starts after one that follows it, whichever calendars and    *)
(* events they come from.                                                  *)
ResultAscending ==
    Returned => \A i \in DOMAIN es : \A j \in DOMAIN es :
                   i < j => es[i].start <= es[j].start

\* a result put in order: its occurrences come from two calendars and were
\* produced with a later start before an earlier one
ReorderedResult ==
    /\ pc = "done"
    /\ \E i \in DOMAIN Produced : \E j \in DOMAIN Produced :
          i < j /\ Produced[i].start > Produced[j].start
    /\ Cardinality({i \in DOMAIN calendars : calendars[i].events # <<>>}) >= 2

----------------------------------------------------------------------------
(* C6: the sort is stable: the result is the occurrences in the order of   *)
(* their production, each moved only behind those that start no later, so  *)
(* that two occurrences with one start keep the order of their production  *)
(* and a sequence produced in order is returned as it is.                  *)
ResultStable ==
    Returned => es = StableSort(Produced)

----------------------------------------------------------------------------
(* C3: for an event without a recurrence rule that does not end before it  *)
(* starts, parseEvent returns no error and exactly one occurrence, from    *)
(* the event's start to its end, with its summary and location, whatever   *)
(* the window is.                                                          *)
NonRecurringOnce ==
    \A k \in DOMAIN parsed :
        LET e == EventsQueried[k]
        IN  (e.rrule = NilROption /\ e.dtend >= e.dtstart) =>
               /\ parsed[k].err = FALSE
               /\ Len(parsed[k].es) = 1
               /\ parsed[k].es[1].start = e.dtstart
               /\ parsed[k].es[1].end = e.dtend
               /\ parsed[k].es[1].summary = e.summary
               /\ parsed[k].es[1].location = e.location

\* an event without a rule, outside the window, expanded and printed
NonRecurringOutsideWindow ==
    /\ pc = "done"
    /\ Len(parsed) = 1 /\ Len(es) = 1
    /\ EventsQueried[1].rrule = NilROption
    /\ EventsQueried[1].dtend > EventsQueried[1].dtstart
    /\ EventsQueried[1].dtend < qStart
    /\ EventsQueried[1].location # ""

----------------------------------------------------------------------------
(* C4: every occurrence parseEvent returns for an event with a recurrence  *)
(* rule starts inside the window, both ends included, and lasts as long    *)
(* as the event; a rule that is accepted never gives an error, and gives   *)
(* nothing when the window ends before the event starts.                   *)
RecurringInsideWindow ==
    \A k \in DOMAIN parsed :
        LET e == EventsQueried[k]
        IN  e.rrule # NilROption =>
               /\ \A i \in DOMAIN parsed[k].es :
                     /\ qStart <= parsed[k].es[i].start
                     /\ parsed[k].es[i].start <= qEnd
                     /\ parsed[k].es[i].end - parsed[k].es[i].start = e.dtend - e.dtstart
               /\ e.rrule.Interval >= 0 => parsed[k].err = FALSE
               /\ (e.rrule.Interval >= 0 /\ qEnd < e.dtstart) => parsed[k].es = <<>>

\* a recurring event with an instance at each end of the window
InstancesAtBothEnds ==
    /\ pc = "done"
    /\ Len(parsed) = 1
    /\ EventsQueried[1].rrule # NilROption
    /\ EventsQueried[1].dtend # EventsQueried[1].dtstart
    /\ \E i \in DOMAIN es : es[i].start = qStart
    /\ \E i \in DOMAIN es : es[i].start = qEnd

----------------------------------------------------------------------------
(* C8: without includeDescription every occurrence has an empty            *)
(* description, whatever the event carries, and with it the event's; for   *)
(* an occurrence printEvent writes one line, and one more, the             *)
(* description, exactly when verbose is set and the description is not     *)
(* empty.                                                                  *)
DescriptionOnRequest ==
    /\ \A k \in DOMAIN parsed : \A i \in DOMAIN parsed[k].es :
          parsed[k].es[i].description
             = (IF qDescr THEN EventsQueried[k].description ELSE "")
    /\ ~qDescr => \A i \in DOMAIN es : es[i].description = ""
    /\ pc = "done" =>
          /\ Len(out) = Len(es)
          /\ \A i \in DOMAIN out :
                IF pVerbose /\ es[i].description # ""
                THEN Len(out[i]) = 2 /\ out[i][2] = es[i].description \o "\n"
                ELSE Len(out[i]) = 1
          /\ (~qDescr \/ ~pVerbose) => \A i \in DOMAIN out : Len(out[i]) = 1

\* an event with a description, expanded without includeDescription and
\* printed with verbose
DescriptionWithheld ==
    /\ pc = "done"
    /\ ~qDescr /\ pVerbose
    /\ Len(parsed) = 1 /\ EventsQueried[1].description # ""
    /\ out # <<>>

----------------------------------------------------------------------------
(* reading a printed line back *)

\* the line without its newline
Chomp(line) == SubSeq(line, 1, Len(line) - 1)

\* the summary and, when there is a location, ", " and the location
SummaryAndLocation(e) ==
    e.summary \o (IF e.location = "" THEN "" ELSE ", " \o e.location)

IsDigit(c) == c \in {"0", "1", "2", "3", "4", "5", "6", "7", "8", "9"}

DigitValue(c) == CHOOSE n \in 0..9 : Digit(n) = c

\* the line has a time of day, HH:MM, after the date
HasTimeOfDay(line) ==
    /\ Len(line) >= 20
    /\ SubSeq(line, 15, 15) = " "
    /\ IsDigit(SubSeq(line, 16, 16)) /\ IsDigit(SubSeq(line, 17, 17))
    /\ SubSeq(line, 18, 18) = ":"
    /\ IsDigit(SubSeq(line, 19, 19)) /\ IsDigit(SubSeq(line, 20, 20))

\* the minute of the day a line with a time of day shows
TimeOfDayShown(line) ==
    (DigitValue(SubSeq(line, 16, 16)) * 10 + DigitValue(SubSeq(line, 17, 17))) * 60
    + DigitValue(SubSeq(line, 19, 19)) * 10 + DigitValue(SubSeq(line, 20, 20))

\* the all-day form: the date, fourteen blanks, the summary and location
AllDayForm(line, e) ==
    /\ Len(line) = 28 + Len(SummaryAndLocation(e)) + 1
    /\ ~HasTimeOfDay(line)
    /\ SubSeq(line, 1, 14) = FormatDate(e.start)
    /\ SubSeq(line, 15, 28) = "              "
    /\ SubSeq(line, 29, Len(line)) = SummaryAndLocation(e) \o "\n"

\* the place after the duration label of a line in the timed form
LabelEnd(line, e) == Len(line) - Len(SummaryAndLocation(e)) - 2

\* the duration label of a line in the timed form
LabelOf(line, e) == SubSeq(line, 22, LabelEnd(line, e))

\* the timed form: the date, the time of day, a duration label, the summary
\* and location
TimedForm(line, e) ==
    /\ HasTimeOfDay(line)
    /\ SubSeq(line, 1, 14) = FormatDate(e.start)
    /\ TimeOfDayShown(line) = (e.start % Day) \div 60
    /\ SubSeq(line, 21, 21) = " "
    /\ LabelEnd(line, e) >= 23
    /\ SubSeq(line, LabelEnd(line, e) + 1, Len(line))
          = " " \o SummaryAndLocation(e) \o "\n"

\* the seconds a generic duration string such as "-1h30m0s" stands for
RECURSIVE ParseUnits(_, _, _, _)
ParseUnits(s, i, num, total) ==
    IF i > Len(s) THEN total
    ELSE LET c == SubSeq(s, i, i)
         IN  IF IsDigit(c) THEN ParseUnits(s, i + 1, num * 10 + DigitValue(c), total)
             ELSE ParseUnits(s, i + 1, 0,
                     total + num * (IF c = "h" THEN 3600 ELSE IF c = "m" THEN 60 ELSE 1))

ParseDuration(s) ==
    IF SubSeq(s, 1, 1) = "-" THEN 0 - ParseUnits(s, 2, 0, 0) ELSE ParseUnits(s, 1, 0, 0)

\* hours in a field of two, "h", and the minutes in two digits and "m", or
\* three blanks when there are none
HoursMinutes(h, m) ==
    (IF h < 10 THEN " " \o Digit(h) ELSE Digit(h \div 10) \o Digit(h % 10))
    \o "h"
    \o (IF m = 0 THEN "   " ELSE Digit(m \div 10) \o Digit(m % 10) \o "m")

----------------------------------------------------------------------------
(* C7: printEvent writes an occurrence in the all-day form, the date,      *)
(* fixed padding, the summary and ", location" if any, with no time of day *)
(* and no duration, exactly when it lasts 24 hours and starts at hour 0,   *)
(* minute 0 of its wall clock; every other occurrence is written in the    *)
(* timed form, with the time of day and a duration label.                  *)
AllDayExactly ==
    pc = "done" =>
        \A i \in DOMAIN es :
            /\ AllDayForm(out[i][1], es[i])
                  <=> (es[i].end - es[i].start = 86400 /\ es[i].start % 86400 < 60)
            /\ TimedForm(out[i][1], es[i]) <=> ~AllDayForm(out[i][1], es[i])

\* an all-day occurrence with a location, printed
AllDayPrinted ==
    /\ pc = "done"
    /\ \E i \in DOMAIN es :
          /\ es[i].end - es[i].start = 86400 /\ es[i].start % 86400 = 0
          /\ es[i].location # ""
          /\ AllDayForm(out[i][1], es[i])

----------------------------------------------------------------------------
(* C10: in the timed form the duration label of a duration above 0 and     *)
(* below 24 hours is its whole hours in a field of two, "h", and its       *)
(* remaining whole minutes in two digits and "m", or three blanks when     *)
(* there are none (90 minutes: " 1h30m"); of any other duration, zero and  *)
(* negative ones included, it is the generic duration string.              *)
DurationLabelChosen ==
    pc = "done" =>
        \A i \in DOMAIN es :
            LET d == es[i].end - es[i].start
                label == LabelOf(out[i][1], es[i])
            IN  TimedForm(out[i][1], es[i]) =>
                   /\ (0 < d /\ d < 86400) =>
                         \E h \in 0..23 : \E m \in 0..59 :
                            /\ h * 3600 + m * 60 <= d
                            /\ d < h * 3600 + m * 60 + 60
                            /\ label = HoursMinutes(h, m)
                   /\ d = 5400 => label = " 1h30m"
                   /\ ~(0 < d /\ d < 86400) =>
                         /\ ParseDuration(label) = d
                         /\ d = 0 => label = "0s"
                         /\ d = 0 - 1800 => label = "-30m0s"
                         /\ d = 86400 => label = "24h0m0s"

\* an occurrence of 90 minutes, printed in the timed form
NinetyMinutesPrinted ==
    /\ pc = "done"
    /\ \E i \in DOMAIN es :
          /\ es[i].end - es[i].start = 5400
          /\ TimedForm(out[i][1], es[i])
          /\ LabelOf(out[i][1], es[i]) = " 1h30m"

----------------------------------------------------------------------------
(* C9: the weekly standup of 2024-03-04, 09:00 to 09:30, three times,      *)
(* summary "Standup", no location, in the window from 2024-03-04 to        *)
(* 2024-03-25, printed without verbose.                                    *)
StandupExample ==
    /\ pc = "done"
    /\ ~pVerbose
    /\ qStart = Date(2024, 3, 4, 0, 0, 0) /\ qEnd = Date(2024, 3, 25, 0, 0, 0)
    /\ Len(calendars) = 1 /\ ~calendars[1].fails /\ Len(calendars[1].events) = 1
    /\ calendars[1].events[1].dtstart = Date(2024, 3, 4, 9, 0, 0)
    /\ calendars[1].events[1].dtend = Date(2024, 3, 4, 9, 30, 0)
    /\ calendars[1].events[1].rrule = ROption("WEEKLY", 0, 3)
    /\ calendars[1].events[1].summary = "Standup"
    /\ calendars[1].events[1].location = ""

\* the three occurrences of the example
StandupOccurrences ==
    /\ Len(es) = 3
    /\ es[1].start = Date(2024, 3, 4, 9, 0, 0) /\ es[1].end = Date(2024, 3, 4, 9, 30, 0)
    /\ es[2].start = Date(2024, 3, 11, 9, 0, 0) /\ es[2].end = Date(2024, 3, 11, 9, 30, 0)
    /\ es[3].start = Date(2024, 3, 18, 9, 0, 0) /\ es[3].end = Date(2024, 3, 18, 9, 30, 0)
    /\ Len(out) = 3 /\ \A i \in 1..3 : Len(out[i]) = 1

(* C9, as stated: three occurrences, printed as the date, the duration     *)
(* label and the summary.                                                  *)
StandupLinesWithoutTime ==
    StandupExample =>
        /\ StandupOccurrences
        /\ Chomp(out[1][1]) = "Mon 2024-03-04  0h30m Standup"
        /\ Chomp(out[2][1]) = "Mon 2024-03-11  0h30m Standup"
        /\ Chomp(out[3][1]) = "Mon 2024-03-18  0h30m Standup"

(* C9, amended: three occurrences, printed as the date, the time of day    *)
(* 09:00, the duration label and the summary.                              *)
StandupLines ==
    StandupExample =>
        /\ StandupOccurrences
        /\ Chomp(out[1][1]) = "Mon 2024-03-04 09:00  0h30m Standup"
        /\ Chomp(out[2][1]) = "Mon 2024-03-11 09:00  0h30m Standup"
        /\ Chomp(out[3][1]) = "Mon 2024-03-18 09:00  0h30m Standup"

\* the example has run and its first line shows the time of day
StandupPrinted ==
    /\ StandupExample
    /\ Len(es) = 3
    /\ HasTimeOfDay(out[1][1])

====
